---- MODULE Spec2Model ----
(***************************************************************************)
(* Push engine of Obsidian-Google-Drive.                                   *)
(*                                                                         *)
(* The repository holds two revisions of push():                           *)
(*   src/helpers/push.ts   (impl = "helpers")                              *)
(*   src/unnamed/part_001  (impl = "part001": confirmation dialog and      *)
(*                          config synchronisation added)                  *)
(* and the Drive client src/unnamed/part_000.  Both revisions are modelled *)
(* over the same state; Init picks the revision.                           *)
(*                                                                         *)
(* JavaScript runs every piece of code between two awaits atomically, so   *)
(* one action of the model is one such piece: from the resolution of an    *)
(* awaited promise to the next await that really suspends.                 *)
(***************************************************************************)
EXTENDS Integers, Sequences, FiniteSets, TLC

VARIABLES
    impl,           \* which revision of push() runs
    operations,     \* t.settings.operations, an insertion-ordered map path -> op
    driveIdToPath,  \* t.settings.driveIdToPath, an insertion-ordered map id -> path
    syncing,        \* t.syncing
    remote,         \* the objects of the Drive: records [id, path, config]
    nextId,         \* how many ids the Drive has handed out
    inv,            \* invocation -> the locals of that call of push()
    calls,          \* history: per call of push() in progress or last returned,
                    \* its remote calls and their results
    notices,        \* history: likewise, the notices it showed
    pushCount,      \* history: how many times push() was invoked
    failures,       \* history: how many remote calls failed
    search          \* the locals of one searchFiles() call

vars == <<impl, operations, driveIdToPath, syncing, remote, nextId, inv,
          calls, notices, pushCount, failures, search>>

pushVars == <<impl, operations, driveIdToPath, syncing, remote, nextId, inv,
              calls, notices, pushCount, failures>>

-----------------------------------------------------------------------------
(* Bounds of the model *)

\* push() is invoked at most this many times in one behaviour
MaxPushes == 2

\* at most this many remote calls fail in one behaviour
MaxFailures == 1

\* a listing has at most this many pages
MaxPages == 3

\* batchAsyncs keeps at most this many actions in flight
BatchLimit == 2

\* the calls of push() that can be in progress at once
InvocationOrder == <<"p1", "p2">>
Invocations == {InvocationOrder[i] : i \in DOMAIN InvocationOrder}

-----------------------------------------------------------------------------
(* JavaScript values *)

\* the value of a missing property, and of `return;`
Undefined == "undefined"

\* !x for the strings and absent values the code tests
Falsy(x) == x = Undefined \/ x = ""

\* An object used as a map is a sequence of <<key, value>> in insertion order.
Keys(m) == {m[i][1] : i \in DOMAIN m}

Get(m, k) ==
    IF k \in Keys(m)
    THEN m[CHOOSE i \in DOMAIN m : m[i][1] = k][2]
    ELSE Undefined

\* m[k] = v: an existing key keeps its place, a new key goes last
Put(m, k, v) ==
    IF k \in Keys(m)
    THEN [i \in DOMAIN m |-> IF m[i][1] = k THEN <<k, v>> ELSE m[i]]
    ELSE Append(m, <<k, v>>)

\* delete m[k]
Del(m, k) == SelectSeq(m, LAMBDA e : e[1] # k)

\* Object.fromEntries(entries): a later entry overwrites an earlier one
RECURSIVE FromEntries(_)
FromEntries(es) ==
    IF es = <<>> THEN <<>>
    ELSE LET e == es[Len(es)]
         IN  Put(FromEntries(SubSeq(es, 1, Len(es) - 1)), e[1], e[2])

\* Object.fromEntries(Object.entries(m).map(([id, path]) => [path, id]))
PathsToIdsOf(m) == FromEntries([i \in DOMAIN m |-> <<m[i][2], m[i][1]>>])

\* array.map(f) and array.filter(p)
Map(s, F(_)) == [i \in DOMAIN s |-> F(s[i])]
Filter(s, P(_)) == SelectSeq(s, P)

RECURSIVE Max(_)
Max(S) == LET x == CHOOSE x \in S : TRUE
          IN  IF S = {x} THEN x
              ELSE LET m == Max(S \ {x}) IN IF x > m THEN x ELSE m

-----------------------------------------------------------------------------
(* Paths *)

\* path.split("/")
RECURSIVE SplitFrom(_, _, _)
SplitFrom(s, i, cur) ==
    IF i > Len(s) THEN <<cur>>
    ELSE IF SubSeq(s, i, i) = "/"
         THEN <<cur>> \o SplitFrom(s, i + 1, "")
         ELSE SplitFrom(s, i + 1, cur \o SubSeq(s, i, i))

Split(path) == SplitFrom(path, 1, "")

\* segments.join("/")
RECURSIVE Join(_)
Join(segs) ==
    IF segs = <<>> THEN ""
    ELSE IF Len(segs) = 1 THEN segs[1]
    ELSE Join(SubSeq(segs, 1, Len(segs) - 1)) \o "/" \o segs[Len(segs)]

\* path.split("/").length
Depth(path) == Len(Split(path))

\* path.split("/").slice(0, -1).join("/")
DirName(path) == LET s == Split(path) IN Join(SubSeq(s, 1, Len(s) - 1))

\* file.parent.path of the vault: the folder holding the file; the vault's
\* root folder has the path "/"
ParentPath(path) == IF Depth(path) = 1 THEN "/" ELSE DirName(path)

-----------------------------------------------------------------------------
(* searchFiles(): a listing fetched page by page (part_000 100-172) *)

\* a listed file: its id and whether properties.obsidian is "vault"
File(id, vault) == [id |-> id, vault |-> vault]

\* what one page of a listing may hold
PageChoices ==
    { <<>>,
      << File("o1", FALSE) >>,
      << File("o2", TRUE), File("o3", FALSE) >>,
      << File("o3", FALSE), File("o4", FALSE) >> }

\* the listings the Drive may serve: 1..MaxPages pages
Listings == UNION {[1..n -> PageChoices] : n \in 1..MaxPages}

\* the continuation token that asks for page i
Token(i) == "t" \o ToString(i)

\* the response of the Drive to a page request: page 1 when no token is
\* given, and nextPageToken only when a page follows
Respond(listing, pageToken) ==
    LET i == IF Falsy(pageToken) THEN 1
             ELSE CHOOSE k \in DOMAIN listing : Token(k) = pageToken
    IN  [files |-> listing[i],
         nextPageToken |-> IF i < Len(listing) THEN Token(i + 1) ELSE Undefined]

SearchIdle ==
    [pc |-> "idle", listing |-> <<>>, includeObsidian |-> FALSE,
     files |-> <<>>, nextPageToken |-> Undefined,
     requests |-> 0, failed |-> FALSE, result |-> <<>>,
     pageFailed |-> FALSE]   \* history: a page request did not succeed

\* the page taken in place of the pages before it
PushPageReplacing(files, page) == page

\* part_000 163: files.files.push(...nextPage.files)
PushPage(files, page) == files \o page

\* part_000 167-171
SearchResult(files, includeObsidian) ==
    IF includeObsidian THEN files
    ELSE Filter(files, LAMBDA f : ~f.vault)

\* part_000 156 and 167-171: the loop test, and the return when it fails
Paginate(s) ==
    IF ~Falsy(s.nextPageToken)
    THEN [s EXCEPT !.pc = "next", !.requests = @ + 1]
    ELSE [s EXCEPT !.pc = "done",
                   !.result = SearchResult(s.files, s.includeObsidian)]

\* the pages fetched so far returned when a page request fails
PageFailedPartial(s) ==
    [s EXCEPT !.pc = "done", !.pageFailed = TRUE,
              !.result = SearchResult(s.files, s.includeObsidian)]

\* part_000 154 and 162: if (!files) return; if (!nextPage) return;
PageFailed(s) == [s EXCEPT !.pc = "done", !.pageFailed = TRUE, !.failed = TRUE]

\* part_000 145-153: searchFiles(data, includeObsidian) is called
SearchCall(listing, includeObsidian) ==
    /\ search.pc = "idle"
    /\ search.listing = <<>>
    /\ search' = [search EXCEPT !.pc = "first", !.listing = listing,
                                !.includeObsidian = includeObsidian,
                                !.requests = 1]
    /\ UNCHANGED pushVars

\* part_000 153-154: the first page request returned
FirstPage(ok) ==
    /\ search.pc = "first"
    /\ search' =
         IF ~ok THEN PageFailed(search)
         ELSE LET r == Respond(search.listing, Undefined)
              IN  Paginate([search EXCEPT !.files = r.files,
                                          !.nextPageToken = r.nextPageToken])
    /\ UNCHANGED pushVars

\* part_000 157-164: a continuation page request returned
NextPage(ok) ==
    /\ search.pc = "next"
    /\ search' =
         IF ~ok THEN PageFailed(search)
         ELSE LET r == Respond(search.listing, search.nextPageToken)
              IN  Paginate([search EXCEPT !.files = PushPage(@, r.files),
                                          !.nextPageToken = r.nextPageToken])
    /\ UNCHANGED pushVars

SearchNext ==
    \/ \E listing \in Listings, includeObsidian \in BOOLEAN :
          SearchCall(listing, includeObsidian)
    \/ \E ok \in BOOLEAN : FirstPage(ok)
    \/ \E ok \in BOOLEAN : NextPage(ok)

-----------------------------------------------------------------------------
(* The vault (local files) *)

VaultFolders == {"a", "a/b", "a/b/c", "notes", "notes/new"}
VaultFiles == {"a/n.md", "m1.md", "m2.md", "notes/a.md", "x.md"}

\* vault.getAbstractFileByPath(path): a TFolder, a TFile or null
GetAbstractFileByPath(path) ==
    IF path \in VaultFolders THEN "TFolder"
    ELSE IF path \in VaultFiles THEN "TFile"
    ELSE "null"

\* vault.configDir + "/plugins/google-drive-sync/data.json"
ConfigDir == ".obsidian"
SettingsPath == ConfigDir \o "/plugins/google-drive-sync/data.json"

\* t.drive.getConfigFilesToSync(): the config files that should exist remotely
GetConfigFilesToSync == <<SettingsPath>>

\* adapter.exists(path) for the paths of remote config objects
AdapterExists(path) ==
    \E i \in DOMAIN GetConfigFilesToSync :
        LET f == GetConfigFilesToSync[i]
        IN  path = f \/ (Len(path) < Len(f) /\ SubSeq(f, 1, Len(path) + 1) = path \o "/")

-----------------------------------------------------------------------------
(* The Drive *)

\* the id the Drive gives to the n-th object it creates
FreshId(n) == "n" \o ToString(n)

\* the id createFolder and uploadFile use when no parent is given:
\* getRootFolderId(), the object marked obsidian = "vault"
RootId == "root"

Obj(id, path, config) == [id |-> id, path |-> path, config |-> config]

\* searchFiles({matches: paths.map(path => ({properties: {path}}))})
\* when every page request succeeds
SearchByPaths(rem, paths) == Filter(rem, LAMBDA o : o.path \in paths)

\* searchFiles({matches: [{properties: {config: "true"}}]}) when it succeeds
SearchConfig(rem) == Filter(rem, LAMBDA o : o.config)

\* the Drive after a batch of DELETE sub-requests
DriveDelete(rem, ids) == Filter(rem, LAMBDA o : o.id \notin ids)

-----------------------------------------------------------------------------
(* The states push() starts from *)

ConfigIndex ==
    << <<"c1", ".obsidian">>,
       <<"c2", ".obsidian/plugins">>,
       <<"c3", ".obsidian/plugins/google-drive-sync">>,
       <<"c4", SettingsPath>> >>

\* objects under the config directory carry the property config = "true"
IsConfigPath(path) ==
    Len(path) >= Len(ConfigDir) /\ SubSeq(path, 1, Len(ConfigDir)) = ConfigDir

RemoteOf(index) ==
    [i \in DOMAIN index |-> Obj(index[i][1], index[i][2], IsConfigPath(index[i][2]))]

Scenario(ops, index) ==
    [ops |-> ops,
     index |-> ConfigIndex \o index,
     remote |-> RemoteOf(ConfigIndex \o index)]

Scenarios ==
    { \* nothing to push
      Scenario(<<>>, <<>>),
      \* one modify, one folder create, one delete
      Scenario(<< <<"notes/a.md", "modify">>, <<"notes/new", "create">>,
                  <<"old.md", "delete">> >>,
               << <<"r1", "notes">>, <<"r2", "notes/a.md">>, <<"r3", "old.md">> >>),
      \* a new folder and a new folder in it, recorded parent first
      Scenario(<< <<"a", "create">>, <<"a/b", "create">> >>, <<>>),
      \* a new folder and a new note in it
      Scenario(<< <<"a", "create">>, <<"a/n.md", "create">> >>, <<>>),
      \* a new folder of three segments under folders the index knows
      Scenario(<< <<"a/b/c", "create">> >>,
               << <<"r1", "a">>, <<"r2", "a/b">> >>),
      \* the same recorded child first (the watcher saw "a" renamed into place)
      Scenario(<< <<"a/b", "create">>, <<"a", "create">> >>, <<>>),
      \* only a new note
      Scenario(<< <<"x.md", "create">> >>, <<>>),
      \* two modified notes
      Scenario(<< <<"m1.md", "modify">>, <<"m2.md", "modify">> >>,
               << <<"r1", "m1.md">>, <<"r2", "m2.md">> >>),
      \* two deleted notes, both known to the index and the Drive
      Scenario(<< <<"old.md", "delete">>, <<"old2.md", "delete">> >>,
               << <<"r1", "old.md">>, <<"r2", "old2.md">> >>),
      \* two deleted notes, one of which neither the index nor the Drive knows
      Scenario(<< <<"old.md", "delete">>, <<"old2.md", "delete">> >>,
               << <<"r1", "old.md">> >>),
      \* a modified note the index does not know (its create failed in an
      \* earlier cycle, whose end cleared the log)
      Scenario(<< <<"x.md", "modify">> >>, <<>>),
      \* a config object on the Drive whose local file is gone
      Scenario(<<>>, << <<"c9", ".obsidian/gone.json">> >>)
    }

\* a vault whose config directory is only partly on the Drive: the plugin's
\* folder and its settings file are not there yet
PartialConfigScenario ==
    [ops |-> <<>>,
     index |-> SubSeq(ConfigIndex, 1, 2),
     remote |-> RemoteOf(SubSeq(ConfigIndex, 1, 2))]

-----------------------------------------------------------------------------
(* The locals of one call of push() *)

IdleLocals ==
    [pc |-> "idle",        \* where the call is suspended
     cycle |-> 0,          \* history: which invocation this is
     outcome |-> "none",   \* history: how the call last returned
     startIdx |-> <<>>,    \* history: driveIdToPath when the call was made
     inSuccession |-> FALSE, \* history: made after a run that fully succeeded
     earlierOk |-> TRUE,   \* history: the calls made here before the last one
                           \* all fully succeeded
     pulledFiles |-> FALSE,
     deletes |-> <<>>, creates |-> <<>>, modifies |-> <<>>,
     ids |-> <<>>,         \* the ids handed to batchDelete
     pathsToIds |-> <<>>,
     pathToId |-> <<>>,
     batches |-> <<>>,     \* the folder batches still to run
     phase |-> "none",     \* which batchAsyncs call is running
     queue |-> <<>>,       \* its actions not yet started
     inflight |-> {}]      \* its actions started and not yet settled

Init ==
    /\ impl \in {"helpers", "part001"}
    /\ \E sc \in Scenarios \cup {PartialConfigScenario} :
          /\ operations = sc.ops
          /\ driveIdToPath = sc.index
          /\ remote = sc.remote
    /\ syncing = FALSE
    /\ nextId = 0
    /\ inv = [p \in Invocations |-> IdleLocals]
    /\ calls = [p \in Invocations |-> <<>>]
    /\ notices = [p \in Invocations |-> <<>>]
    /\ pushCount = 0
    /\ failures = 0
    /\ search = SearchIdle

-----------------------------------------------------------------------------
(* The state one call of push() works on: the shared state and its locals *)

World(p) ==
    [p |-> p, ops |-> operations, idx |-> driveIdToPath, syncing |-> syncing,
     remote |-> remote, nextId |-> nextId, calls |-> calls,
     notices |-> notices, failures |-> failures, l |-> inv[p]]

Becomes(p, w) ==
    /\ operations' = w.ops
    /\ driveIdToPath' = w.idx
    /\ syncing' = w.syncing
    /\ remote' = w.remote
    /\ nextId' = w.nextId
    /\ calls' = w.calls
    /\ notices' = w.notices
    /\ failures' = w.failures
    /\ inv' = [inv EXCEPT ![p] = w.l]
    /\ UNCHANGED <<impl, pushCount, search>>

\* history: a remote call is issued
Call(w, kind, path, arg, parent, list) ==
    [w EXCEPT !.calls[w.p] = Append(@,
        [ev |-> "call", kind |-> kind, path |-> path,
         arg |-> arg, parent |-> parent, list |-> list])]

\* history: a remote call settles; id is what it returned
Settled(w, ev, kind, path, id) ==
    [w EXCEPT !.calls[w.p] = Append(@,
        [ev |-> ev, kind |-> kind, path |-> path,
         arg |-> id, parent |-> "", list |-> <<>>])]

ReloadNotice ==
    "Sync complete, but some files were pulled from Google Drive, so you should reload Obsidian."

CompleteNotices == {"Sync complete!", ReloadNotice}

\* new Notice(msg)
Notice(w, msg) ==
    [w EXCEPT !.notices[w.p] = Append(@, msg)]

\* push() returns: its locals are gone
Return(w, outcome) ==
    [w EXCEPT !.l = [IdleLocals EXCEPT !.cycle = w.l.cycle, !.outcome = outcome,
                                       !.startIdx = w.l.startIdx,
                                       !.inSuccession = w.l.inSuccession,
                                       !.earlierOk = w.l.earlierOk]]

\* a remote call that did not succeed
Failed(w) == [w EXCEPT !.failures = @ + 1]

-----------------------------------------------------------------------------
(* batchAsyncs: the actions of one call run in waves of BatchLimit *)

\* The remote call an action of a batch makes when it starts.  Vault reads
\* (vault.readBinary) are local and do not change what is sent.
ThunkCall(l, t) ==
    LET dir == IF t.thunk \in {"cfgFolder", "cfgFile"}
               THEN DirName(t.path) ELSE ParentPath(t.path)
        given == Get(l.pathsToIds, dir)
        own == IF t.thunk = "modify" THEN Get(l.pathToId, t.path)
               ELSE Get(l.pathsToIds, t.path)
        create(kind) ==
            [thunk |-> t.thunk, kind |-> kind, path |-> t.path, arg |-> given,
             parent |-> IF Falsy(given) THEN RootId ELSE given]
        update ==
            [thunk |-> t.thunk, kind |-> "updateFile", path |-> t.path,
             arg |-> own, parent |-> ""]
    IN  CASE t.thunk \in {"folder", "cfgFolder"} -> create("createFolder")
          [] t.thunk = "note" -> create("uploadFile")
          [] t.thunk = "modify" -> update
          [] t.thunk = "cfgFile" ->
                IF ~Falsy(own) THEN update ELSE create("uploadFile")

RECURSIVE IssueAll(_, _)
IssueAll(w, ts) ==
    IF ts = <<>> THEN w
    ELSE LET c == ThunkCall(w.l, Head(ts))
         IN  IssueAll(Call(w, c.kind, c.path, c.arg, c.parent, <<>>), Tail(ts))

\* the next wave of the queue starts: every action of it runs up to its
\* remote call
StartWave(w) ==
    LET n == IF Len(w.l.queue) < BatchLimit THEN Len(w.l.queue) ELSE BatchLimit
        wave == SubSeq(w.l.queue, 1, n)
        w1 == IssueAll(w, wave)
    IN  [w1 EXCEPT !.l.pc = "batch",
                   !.l.queue = SubSeq(w.l.queue, n + 1, Len(w.l.queue)),
                   !.l.inflight = {ThunkCall(w.l, wave[i]) : i \in DOMAIN wave}]

Thunks(kind, paths) == [i \in DOMAIN paths |-> [thunk |-> kind, path |-> paths[i]]]

-----------------------------------------------------------------------------
(* push(), last phase first *)

\* t.startSync() and t.endSync(): the single-flight lock
StartSync(w) == [w EXCEPT !.syncing = TRUE]
EndSync(w) == [w EXCEPT !.syncing = FALSE]

\* the log left as it is
ClearLogSkipped(w) == w

\* t.settings.operations = {}
ClearLog(w) == [w EXCEPT !.ops = <<>>]

\* push.ts 135-137, part_001 484-486
EndCycle(w) == [ClearLog(w) EXCEPT !.l.pc = "endSync"]

\* part_001 478-482: the settings snapshot
Settings(w) ==
    LET id == Get(w.l.pathsToIds, SettingsPath)
    IN  [Call(w, "updateFile", SettingsPath, id, "", <<>>) EXCEPT !.l.pc = "settings"]

\* part_001 447-476
CfgFilesPhase(w) ==
    IF GetConfigFilesToSync = <<>> THEN Settings(w)
    ELSE StartWave([w EXCEPT !.l.phase = "cfgFiles",
                             !.l.queue = Thunks("cfgFile", GetConfigFilesToSync)])

\* foldersToBatches(folders): batch k holds the folders of k segments
FoldersToBatches(folders) ==
    IF folders = <<>> THEN <<>>
    ELSE [k \in 1..Max({Depth(folders[i]) : i \in DOMAIN folders}) |->
             Filter(folders, LAMBDA f : Depth(f) = k)]

\* part_001 423-445: for (const batch of batches) await batchAsyncs(...)
RECURSIVE CfgFolderBatches(_)
CfgFolderBatches(w) ==
    IF w.l.batches = <<>> THEN CfgFilesPhase(w)
    ELSE LET w1 == [w EXCEPT !.l.batches = Tail(@)]
             b == Head(w.l.batches)
         IN  IF b = <<>> THEN CfgFolderBatches(w1)
             ELSE StartWave([w1 EXCEPT !.l.phase = "cfgFolders",
                                       !.l.queue = Thunks("cfgFolder", b)])

\* part_001 408-414: every proper prefix of every config path, first seen first
RECURSIVE Prefixes(_, _)
Prefixes(parts, i) ==
    IF i >= Len(parts) THEN <<>>
    ELSE <<Join(SubSeq(parts, 1, i))>> \o Prefixes(parts, i + 1)

RECURSIVE AddAll(_, _)
AddAll(set, xs) ==
    IF xs = <<>> THEN set
    ELSE AddAll(IF \E i \in DOMAIN set : set[i] = Head(xs)
                THEN set ELSE Append(set, Head(xs)), Tail(xs))

RECURSIVE FoldersOf(_)
FoldersOf(paths) ==
    IF paths = <<>> THEN <<>>
    ELSE AddAll(FoldersOf(SubSeq(paths, 1, Len(paths) - 1)),
                Prefixes(Split(paths[Len(paths)]), 1))

\* part_001 408-421, after getConfigFilesToSync()
ConfigSync(w) ==
    LET foldersToCreate ==
            Filter(FoldersOf(GetConfigFilesToSync),
                   LAMBDA f : Falsy(Get(w.l.pathsToIds, f)))
    IN  IF foldersToCreate # <<>>
        THEN CfgFolderBatches([w EXCEPT !.l.batches = FoldersToBatches(foldersToCreate)])
        ELSE CfgFilesPhase(w)

\* what follows the modify phase: push.ts 135, part_001 406
AfterModify(w) ==
    IF impl = "helpers" THEN EndCycle(w)
    ELSE [w EXCEPT !.l.pc = "getConfig"]

\* vault.getFileByPath(path) is a TFile
IsFile(path) == GetAbstractFileByPath(path) = "TFile"

IsFolder(path) == GetAbstractFileByPath(path) = "TFolder"

\* the modify phase sending only its first file
ModifyPhaseFirstOnly(w) ==
    IF w.l.modifies = <<>> THEN AfterModify(w)
    ELSE LET files == Filter(w.l.modifies, IsFile)
             w1 == [w EXCEPT !.l.pathToId = PathsToIdsOf(w.idx),
                             !.l.phase = "modify",
                             !.l.queue = Thunks("modify", SubSeq(files, 1, 1))]
         IN  IF files = <<>> THEN AfterModify(w1) ELSE StartWave(w1)

\* push.ts 107-133, part_001 371-404
ModifyPhase(w) ==
    IF w.l.modifies = <<>> THEN AfterModify(w)
    ELSE LET files == Filter(w.l.modifies, IsFile)
             w1 == [w EXCEPT !.l.pathToId = PathsToIdsOf(w.idx),
                             !.l.phase = "modify",
                             !.l.queue = Thunks("modify", files)]
         IN  IF files = <<>> THEN AfterModify(w1) ELSE StartWave(w1)

\* push.ts 84-104, part_001 342-368
NotesPhase(w) ==
    LET notes == Filter(w.l.creates, IsFile)
    IN  IF notes = <<>> THEN ModifyPhase(w)
        ELSE StartWave([w EXCEPT !.l.phase = "notes",
                                 !.l.queue = Thunks("note", notes)])

\* the folder batches with the modifies started alongside them
RECURSIVE FolderBatchesWithModifies(_)
FolderBatchesWithModifies(w) ==
    IF w.l.batches = <<>> THEN NotesPhase(w)
    ELSE LET w1 == [w EXCEPT !.l.batches = Tail(@)]
             b == Head(w.l.batches)
         IN  IF b = <<>> THEN FolderBatchesWithModifies(w1)
             ELSE StartWave([w1 EXCEPT
                    !.l.phase = "folders",
                    !.l.queue = Thunks("folder", b)
                                \o Thunks("modify", Filter(w.l.modifies, IsFile))])

\* push.ts 62-82, part_001 313-339: for (const batch of batches) ...
RECURSIVE FolderBatches(_)
FolderBatches(w) ==
    IF w.l.batches = <<>> THEN NotesPhase(w)
    ELSE LET w1 == [w EXCEPT !.l.batches = Tail(@)]
             b == Head(w.l.batches)
         IN  IF b = <<>> THEN FolderBatches(w1)
             ELSE StartWave([w1 EXCEPT !.l.phase = "folders",
                                       !.l.queue = Thunks("folder", b)])

\* the create phase going straight to the notes
CreatePhaseNotesFirst(w) ==
    IF w.l.creates = <<>> THEN ModifyPhase(w)
    ELSE NotesPhase(IF impl = "helpers"
                    THEN [w EXCEPT !.l.pathsToIds = PathsToIdsOf(w.idx)]
                    ELSE w)

\* push.ts 54-60: new Array(n).fill([]) puts ONE array in every slot, so
\* every batches[k].push(folder) lands in that array
HelpersBatches(folders) ==
    LET n == Max({Depth(folders[i]) : i \in DOMAIN folders})
        shared == folders
    IN  [k \in 1..n |-> shared]

\* push.ts 38-60, part_001 300-311
CreatePhase(w) ==
    IF w.l.creates = <<>> THEN ModifyPhase(w)
    ELSE LET folders == Filter(w.l.creates, IsFolder)
         IN  IF impl = "helpers"
             THEN IF folders = <<>>
                  \* Math.max() is -Infinity: new Array(-Infinity) throws
                  THEN Return(w, "threw")
                  ELSE FolderBatches(
                          [w EXCEPT !.l.pathsToIds = PathsToIdsOf(w.idx),
                                    !.l.batches = HelpersBatches(folders)])
             ELSE FolderBatches([w EXCEPT !.l.batches = FoldersToBatches(folders)])

\* what follows a wave that has settled
AfterWave(w) ==
    IF w.l.queue # <<>> THEN StartWave(w)
    ELSE CASE w.l.phase = "folders" -> FolderBatches(w)
           [] w.l.phase = "notes" -> ModifyPhase(w)
           [] w.l.phase = "modify" -> AfterModify(w)
           [] w.l.phase = "cfgFolders" -> CfgFolderBatches(w)
           [] w.l.phase = "cfgFiles" -> Settings(w)

-----------------------------------------------------------------------------
(* The delete phase *)

RECURSIVE DelAll(_, _)
DelAll(m, ks) == IF ks = <<>> THEN m ELSE DelAll(Del(m, Head(ks)), Tail(ks))

Range(s) == {s[i] : i \in DOMAIN s}

PathsOf(ops, op) ==
    Map(Filter(ops, LAMBDA e : e[2] = op), LAMBDA e : e[1])

\* push.ts 15-18, part_001 262-270
Partition(w) ==
    [w EXCEPT !.l.deletes = PathsOf(w.ops, "delete"),
              !.l.creates = PathsOf(w.ops, "create"),
              !.l.modifies = PathsOf(w.ops, "modify"),
              !.l.pathsToIds = IF impl = "helpers" THEN <<>> ELSE PathsToIdsOf(w.idx)]

\* push.ts 15-21, part_001 262-275: from the end of pull() to the next call
AfterPull(w, pulled) ==
    LET w0 == Settled(w, "ok", "pull", "", IF pulled THEN "pulled" ELSE "")
        w1 == Partition([w0 EXCEPT !.l.pulledFiles = impl = "helpers" /\ pulled])
    IN  IF impl = "helpers"
        THEN IF w1.l.deletes # <<>>
             THEN [Call(w1, "idsFromPaths", "", "", "", w1.l.deletes)
                     EXCEPT !.l.pc = "ids"]
             ELSE CreatePhase(w1)
        ELSE [Call(w1, "searchFiles", "", "", "", <<>>) EXCEPT !.l.pc = "config"]

\* push.ts 22-28: idsFromPaths() returned
AfterIds(w, ok) ==
    IF ~ok
    THEN Return(Notice(Settled(w, "fail", "idsFromPaths", "", Undefined),
                       "An error occurred fetching Google Drive files."), "aborted")
    ELSE LET ids == Map(SearchByPaths(w.remote, Range(w.l.deletes)), LAMBDA o : o.id)
         IN  IF ids # <<>>
             THEN [Call(w, "batchDelete", "", "", "", ids)
                     EXCEPT !.l.pc = "delete", !.l.ids = ids]
             ELSE CreatePhase(w)

\* part_001 276-291: the search for config objects returned
AfterConfig(w, ok) ==
    IF ~ok
    THEN Return(Notice(Settled(w, "fail", "searchFiles", "", Undefined),
                       "An error occurred fetching Google Drive files."), "aborted")
    ELSE LET gone == Filter(Map(SearchConfig(w.remote), LAMBDA o : o.path),
                            LAMBDA path : ~AdapterExists(path))
             deletes == w.l.deletes \o gone
             ids == Map(deletes, LAMBDA path : Get(w.l.pathsToIds, path))
             w1 == [w EXCEPT !.l.deletes = deletes]
         IN  IF deletes # <<>>
             THEN [Call(w1, "batchDelete", "", "", "", ids)
                     EXCEPT !.l.pc = "delete", !.l.ids = ids]
             ELSE CreatePhase(w1)

\* push.ts 34: ids.forEach(({ id }) => delete t.settings.driveIdToPath[id])
ForgetIds(w) == [w EXCEPT !.idx = DelAll(@, w.l.ids)]

\* part_001 295: deletes.forEach(([path]) => delete t.settings.driveIdToPath[path])
ForgetPaths(w) == [w EXCEPT !.idx = DelAll(@, w.l.deletes)]

\* the failed grouped delete forgetting the ids it submitted
DeleteFailedForgetting(w) ==
    Return(Notice(Settled(ForgetIds(w), "fail", "batchDelete", "", Undefined),
                  "An error occurred deleting Google Drive files."), "aborted")

\* push.ts 29-33, part_001 292-294: if (!deleteRequest) return new Notice(...)
DeleteFailed(w) ==
    Return(Notice(Settled(w, "fail", "batchDelete", "", Undefined),
                  "An error occurred deleting Google Drive files."), "aborted")

\* push.ts 29-36, part_001 292-300: batchDelete() returned
AfterDelete(w, ok) ==
    IF ~ok
    THEN DeleteFailed(w)
    ELSE LET w1 == [Settled(w, "ok", "batchDelete", "", "")
                      EXCEPT !.remote = DriveDelete(@, Range(w.l.ids))]
         IN  CreatePhase(IF impl = "helpers" THEN ForgetIds(w1) ELSE ForgetPaths(w1))

-----------------------------------------------------------------------------
(* One action of a batch settles *)

\* The Drive refuses a call that names an object it does not hold.
DriveAccepts(rem, c) ==
    LET ids == {rem[i].id : i \in DOMAIN rem}
    IN  IF c.kind = "updateFile" THEN c.arg \in ids
        ELSE c.parent = RootId \/ c.parent \in ids

CreateNotice(c) ==
    CASE c.thunk \in {"folder", "cfgFolder"} ->
            "An error occurred creating Google Drive folders."
      [] c.thunk = "note" -> "An error occurred creating Google Drive files."
      [] c.thunk = "cfgFile" -> "An error occurred creating Google Drive config files."

\* a create whose id is not written to the index
CreateSettledUnrecorded(w, c, ok) ==
    IF ~ok THEN Notice(Settled(w, "fail", c.kind, c.path, Undefined), CreateNotice(c))
    ELSE LET id == FreshId(w.nextId + 1)
             w1 == [Settled(w, "ok", c.kind, c.path, id) EXCEPT
                      !.nextId = @ + 1,
                      !.remote = Append(@, Obj(id, c.path, c.thunk \in {"cfgFolder", "cfgFile"}))]
         IN  IF c.thunk = "note" THEN w1
             ELSE [w1 EXCEPT !.l.pathsToIds = Put(@, c.path, id)]

\* push.ts 73-79, 97-102, part_001 324-336, 355-366, 434-441, 467-474
CreateSettled(w, c, ok) ==
    IF ~ok THEN Notice(Settled(w, "fail", c.kind, c.path, Undefined), CreateNotice(c))
    ELSE LET id == FreshId(w.nextId + 1)
             w1 == [Settled(w, "ok", c.kind, c.path, id) EXCEPT
                      !.nextId = @ + 1,
                      !.remote = Append(@, Obj(id, c.path, c.thunk \in {"cfgFolder", "cfgFile"})),
                      !.idx = Put(@, id, c.path)]
         IN  IF c.thunk = "note" THEN w1
             ELSE [w1 EXCEPT !.l.pathsToIds = Put(@, c.path, id)]

\* push.ts 126-130, part_001 392-401 (a modify), part_001 449-455 (a config
\* file, whose result is not looked at)
UpdateSettled(w, c, ok) ==
    IF ok THEN Settled(w, "ok", c.kind, c.path, c.arg)
    ELSE LET w1 == Settled(w, "fail", c.kind, c.path, Undefined)
         IN  IF c.thunk = "modify"
             THEN Notice(w1, "An error occurred modifying Google Drive files.")
             ELSE w1

ThunkSettled(w, c, ok) ==
    LET w1 == IF c.kind = "updateFile" THEN UpdateSettled(w, c, ok)
              ELSE CreateSettled(w, c, ok)
        w2 == [w1 EXCEPT !.l.inflight = @ \ {c}]
    IN  IF w2.l.inflight = {} THEN AfterWave(w2) ELSE w2

-----------------------------------------------------------------------------
(* The actions: push() is called, and each awaited promise resolves *)

\* a remote call may fail in transport, MaxFailures times in all
MayFail == failures < MaxFailures

Outcome(w, ok) == IF ok THEN w ELSE Failed(w)

\* history: a call of push() that gets past its guard starts a new history
NewHistory(w) == [w EXCEPT !.calls[w.p] = <<>>, !.notices[w.p] = <<>>]

\* push() without its guard
EnterUnguarded(w) ==
    IF impl = "helpers"
    THEN [Call(StartSync(NewHistory(w)), "pull", "", "", "", <<>>) EXCEPT !.l.pc = "pull"]
    ELSE [NewHistory(w) EXCEPT !.l.pc = "modal"]

\* push.ts 6-11, part_001 243-254: push(t) is called
Enter(w) ==
    IF w.syncing THEN Return(w, "rejected")
    ELSE IF impl = "helpers"
         THEN [Call(StartSync(NewHistory(w)), "pull", "", "", "", <<>>)
                 EXCEPT !.l.pc = "pull"]
         ELSE [NewHistory(w) EXCEPT !.l.pc = "modal"]

\* history: the last call of push() made at q ran to its end and none of its
\* remote calls failed
FullySucceeded(q) ==
    /\ inv[q].outcome = "complete"
    /\ \E i \in DOMAIN notices[q] : notices[q][i] \in CompleteNotices
    /\ \A i \in DOMAIN calls[q] : calls[q][i].ev # "fail"

\* history: every earlier invocation has returned, and fully succeeded
AllFullySucceeded ==
    /\ pushCount >= 1
    /\ \A q \in Invocations :
          /\ inv[q].pc = "idle"
          /\ inv[q].earlierOk
          /\ inv[q].cycle >= 1 => FullySucceeded(q)

\* the calls of push() are interchangeable: a new one takes the first free place
FirstIdle ==
    LET free == {i \in DOMAIN InvocationOrder : inv[InvocationOrder[i]].pc = "idle"}
    IN  InvocationOrder[CHOOSE i \in free : \A j \in free : i <= j]

Push(p) ==
    /\ inv[p].pc = "idle"
    /\ p = FirstIdle
    /\ pushCount < MaxPushes
    /\ pushCount' = pushCount + 1
    /\ LET w == Enter([World(p) EXCEPT !.l =
                        [IdleLocals EXCEPT
                           !.cycle = pushCount + 1,
                           !.startIdx = driveIdToPath,
                           !.inSuccession = AllFullySucceeded,
                           !.earlierOk = /\ inv[p].earlierOk
                                         /\ inv[p].cycle >= 1 => FullySucceeded(p)]])
       IN  /\ operations' = w.ops
           /\ driveIdToPath' = w.idx
           /\ syncing' = w.syncing
           /\ calls' = w.calls
           /\ notices' = w.notices
           /\ inv' = [inv EXCEPT ![p] = w.l]
    /\ UNCHANGED <<impl, remote, nextId, failures, search>>

\* part_001 90-93, 256-260: Confirm is pressed
ModalConfirm(p) ==
    /\ inv[p].pc = "modal"
    /\ Becomes(p, [Call(StartSync(World(p)), "pull", "", "", "", <<>>)
                     EXCEPT !.l.pc = "pull"])

\* part_001 84, 97-99, 256: Cancel is pressed or the dialog is closed
ModalClose(p) ==
    /\ inv[p].pc = "modal"
    /\ Becomes(p, Return(World(p), "cancelled"))

\* pull(t, true) returns whether files were pulled; part_001 260 drops the result
PullResults == BOOLEAN

PullDone(p, pulled) ==
    /\ inv[p].pc = "pull"
    /\ Becomes(p, AfterPull(World(p), pulled))

IdsDone(p, ok) ==
    /\ inv[p].pc = "ids"
    /\ ok \/ MayFail
    /\ Becomes(p, AfterIds(Outcome(World(p), ok), ok))

ConfigDone(p, ok) ==
    /\ inv[p].pc = "config"
    /\ ok \/ MayFail
    /\ Becomes(p, AfterConfig(Outcome(World(p), ok), ok))

DeleteDone(p, ok) ==
    /\ inv[p].pc = "delete"
    /\ ok \/ MayFail
    /\ Becomes(p, AfterDelete(Outcome(World(p), ok), ok))

\* one remote call of the running batchAsyncs settles
Settle(p, c, ok) ==
    /\ inv[p].pc = "batch"
    /\ c \in inv[p].inflight
    /\ IF DriveAccepts(remote, c)
       THEN /\ ok \/ MayFail
            /\ Becomes(p, ThunkSettled(Outcome(World(p), ok), c, ok))
       ELSE /\ ~ok
            /\ Becomes(p, ThunkSettled(World(p), c, FALSE))

\* part_001 406: getConfigFilesToSync() returns
GetConfigDone(p) ==
    /\ inv[p].pc = "getConfig"
    /\ Becomes(p, ConfigSync(World(p)))

\* part_001 478-484: the settings snapshot was sent; its result is not looked at
AfterSettings(w, ok) ==
    EndCycle(Settled(w, IF ok THEN "ok" ELSE "fail", "updateFile", SettingsPath,
                     IF ok THEN Get(w.l.pathsToIds, SettingsPath) ELSE Undefined))

SettingsDone(p, ok) ==
    /\ inv[p].pc = "settings"
    /\ IF DriveAccepts(remote, [kind |-> "updateFile",
                                arg |-> Get(inv[p].pathsToIds, SettingsPath)])
       THEN /\ ok \/ MayFail
            /\ Becomes(p, AfterSettings(Outcome(World(p), ok), ok))
       ELSE /\ ~ok
            /\ Becomes(p, AfterSettings(World(p), FALSE))

\* push.ts 137-145, part_001 486-488: endSync() returned
Finish(w) ==
    LET msg == IF impl = "helpers" /\ w.l.pulledFiles
               THEN ReloadNotice ELSE "Sync complete!"
    IN  Return(Notice(EndSync(w), msg), "complete")

EndSyncDone(p) ==
    /\ inv[p].pc = "endSync"
    /\ Becomes(p, Finish(World(p)))

Next ==
    \E p \in Invocations :
        \/ Push(p)
        \/ ModalConfirm(p)
        \/ ModalClose(p)
        \/ \E pulled \in PullResults : PullDone(p, pulled)
        \/ \E ok \in BOOLEAN : IdsDone(p, ok)
        \/ \E ok \in BOOLEAN : ConfigDone(p, ok)
        \/ \E ok \in BOOLEAN : DeleteDone(p, ok)
        \/ \E c \in inv[p].inflight, ok \in BOOLEAN : Settle(p, c, ok)
        \/ GetConfigDone(p)
        \/ \E ok \in BOOLEAN : SettingsDone(p, ok)
        \/ EndSyncDone(p)

Spec == Init /\ [][Next]_vars

-----------------------------------------------------------------------------
(* What the histories say *)

\* the events in the history of n that satisfy P
Events(n, P(_)) == {i \in DOMAIN calls[n] : P(calls[n][i])}

IsMutation(e) ==
    e.ev = "call" /\ e.kind \in {"batchDelete", "createFolder", "uploadFile", "updateFile"}

\* the invocations that hold the lock or work under it: from startSync()
\* to the return of endSync()
InCycle == {p \in Invocations : inv[p].pc \notin {"idle", "modal"}}

\* the log entries of a running invocation that it marked delete and for
\* which the lookup it uses gives no id
Unresolved(p) ==
    LET l == inv[p]
        logged == {path \in Range(l.deletes) : Get(operations, path) = "delete"}
    IN  IF impl = "helpers"
        THEN {path \in logged :
                ~\E i \in DOMAIN remote : remote[i].path = path}
        ELSE {path \in logged : Get(l.pathsToIds, path) = Undefined}

-----------------------------------------------------------------------------
(* C1 *)

\* C1: when the log has just been cleared at the end of a cycle, every
\* logged path whose create or update call failed in that cycle is still in
\* the log with its operation (so of N modifies with one failed update the
\* log keeps exactly the failed one).
C1_FailedEntryKept ==
    \A p \in Invocations :
        inv[p].pc = "endSync" =>
            \A i \in DOMAIN calls[p] :
                LET e == calls[p][i]
                IN  /\ (e.ev = "fail" /\ e.path \in Range(inv[p].modifies))
                        => Get(operations, e.path) = "modify"
                    /\ (e.ev = "fail" /\ e.path \in Range(inv[p].creates))
                        => Get(operations, e.path) = "create"

-----------------------------------------------------------------------------
(* C2 *)

\* C2: if some path marked delete cannot be resolved to a remote id, the
\* cycle issues no grouped delete and every delete entry stays in the log.
C2_DeleteAllOrNothing ==
    \A p \in Invocations :
        Unresolved(p) # {} =>
            /\ Events(p, LAMBDA e : e.ev = "call" /\ e.kind = "batchDelete") = {}
            /\ \A path \in Range(PathsOf(operations, "delete")) :
                   Get(operations, path) = "delete"

-----------------------------------------------------------------------------
(* C3 *)

\* C3: while the create call of a pending folder of k segments is in
\* flight, every pending folder of k-1 segments of that cycle is in the
\* index (its create call completed and recorded its id).
C3_ShallowerFoldersIndexed ==
    \A p \in Invocations :
        \A c \in inv[p].inflight :
            c.thunk = "folder" =>
                \A g \in Range(inv[p].creates) :
                    (IsFolder(g) /\ Depth(g) = Depth(c.path) - 1)
                        => \E i \in DOMAIN driveIdToPath : driveIdToPath[i][2] = g

-----------------------------------------------------------------------------
(* C4 *)

\* C4: a folder create call whose parent folder was created in the same
\* cycle carries the id the Drive returned for the parent.
C4_ChildCarriesParentId ==
    \A n \in Invocations :
        \A i \in DOMAIN calls[n] :
            LET e == calls[n][i]
                parentCreated ==
                    Events(n, LAMBDA x : x.ev = "ok" /\ x.kind = "createFolder"
                                          /\ x.path = DirName(e.path))
            IN  (e.ev = "call" /\ e.kind = "createFolder" /\ ~IsConfigPath(e.path)
                 /\ parentCreated # {})
                    => \E j \in parentCreated : j < i /\ calls[n][j].arg = e.parent

-----------------------------------------------------------------------------
(* C5 *)

\* C5: a call of push() made while t.syncing is set changes nothing: no
\* pull, no remote call, no notice, the log and the index as they were, and
\* no invocation is left waiting (it is not queued).
C5_RejectedPushIsNoOp ==
    [][(syncing /\ pushCount' # pushCount) =>
          /\ UNCHANGED <<operations, driveIdToPath, remote, nextId, calls,
                         notices, syncing>>
          /\ \A p \in Invocations : inv'[p].pc = inv[p].pc]_vars

C5_Witness ==
    \E p \in Invocations : inv[p].outcome = "rejected" /\ InCycle # {}

-----------------------------------------------------------------------------
(* C6 *)

\* C6: at most one push cycle is between startSync() and the end of
\* endSync() at any time.
C6_SingleFlight == Cardinality(InCycle) <= 1

-----------------------------------------------------------------------------
(* C7 *)

\* C7: once every call of push() has returned, the lock is free (so a later
\* push is accepted): every cycle that took the lock gave it back.
C7_LockReleasedWhenIdle ==
    (\A p \in Invocations : inv[p].pc = "idle") => ~syncing

-----------------------------------------------------------------------------
(* C8 *)

\* C8: once the grouped delete of a cycle has succeeded, the cycle has
\* issued exactly one grouped delete, and no id it submitted is a key of
\* driveIdToPath.
C8_DeletedIdsForgotten ==
    \A p \in Invocations :
        (inv[p].pc # "idle"
         /\ Events(p, LAMBDA e : e.ev = "ok" /\ e.kind = "batchDelete") # {}) =>
            /\ Cardinality(Events(p,
                    LAMBDA e : e.ev = "call" /\ e.kind = "batchDelete")) = 1
            /\ Range(inv[p].ids) \cap Keys(driveIdToPath) = {}

-----------------------------------------------------------------------------
(* C9 *)

\* the ids of a grouped delete all belong to config objects
OnlyConfigIds(p, e) ==
    \A i \in DOMAIN e.list :
        e.list[i] = Undefined \/ IsConfigPath(Get(inv[p].startIdx, e.list[i]))

\* C9 as stated: a push made after a run that fully succeeded finds the log
\* empty, issues no remote mutation call and leaves the index unchanged.
C9_SecondRunNoMutation ==
    \A p \in Invocations :
        (inv[p].cycle >= 2 /\ inv[p].inSuccession) =>
            /\ operations = <<>>
            /\ Events(p, IsMutation) = {}
            /\ driveIdToPath = inv[p].startIdx

\* C9 amended: a push made after a run that fully succeeded finds the log
\* empty, issues no create, upload or update call for a vault path and no
\* grouped delete of a vault object (the remote mutations it does issue
\* belong to the config synchronisation), and leaves the index unchanged.
C9_SecondRunOnlyConfig ==
    \A p \in Invocations :
        (inv[p].cycle >= 2 /\ inv[p].inSuccession) =>
            /\ operations = <<>>
            /\ \A i \in DOMAIN calls[p] :
                  LET e == calls[p][i]
                  IN  IsMutation(e) =>
                         IF e.kind = "batchDelete" THEN OnlyConfigIds(p, e)
                         ELSE IsConfigPath(e.path)
            /\ driveIdToPath = inv[p].startIdx

C9_Witness ==
    \E p \in Invocations :
        /\ inv[p].cycle = 2
        /\ inv[p].inSuccession
        /\ inv[p].outcome = "complete"
        /\ impl = "part001"
        /\ \E k \in DOMAIN inv[p].startIdx :
              /\ inv[p].startIdx[k][1] = FreshId(1)
              /\ ~IsConfigPath(inv[p].startIdx[k][2])
        /\ Events(p, IsMutation) # {}

-----------------------------------------------------------------------------
(* C10 *)

RECURSIVE Concat(_)
Concat(pages) ==
    IF pages = <<>> THEN <<>> ELSE Head(pages) \o Concat(Tail(pages))

\* C10: a search whose page requests all succeed returns the pages of the
\* listing concatenated in the order served, without the files marked as
\* the sync root unless includeObsidian is set, after exactly one request
\* per page.
C10_SearchIsConcatenation ==
    (search.pc = "done" /\ ~search.failed) =>
        /\ search.requests = Len(search.listing)
        /\ LET all == Concat(search.listing)
           IN  search.result =
                  IF search.includeObsidian THEN all
                  ELSE SelectSeq(all, LAMBDA f : ~f.vault)

C10_Witness ==
    /\ search.pc = "done"
    /\ ~search.failed
    /\ Len(search.listing) = 3
    /\ ~search.includeObsidian
    /\ \E i \in DOMAIN search.listing :
          \E j \in DOMAIN search.listing[i] : search.listing[i][j].vault
    /\ Len(search.result) >= 3

-----------------------------------------------------------------------------
(* More of what the histories say *)

\* the event is about a path of the vault, not of the config directory
IsVaultCreate(e) ==
    e.kind \in {"createFolder", "uploadFile"} /\ ~IsConfigPath(e.path)

IsVaultUpdate(e) == e.kind = "updateFile" /\ ~IsConfigPath(e.path)

IsSettle(e) == e.ev \in {"ok", "fail"}

\* how many of the first i events of invocation n satisfy P
CountBefore(n, i, P(_)) ==
    Cardinality({j \in DOMAIN calls[n] : j < i /\ P(calls[n][j])})

\* the phase a remote call belongs to, as the notices name it
PhaseOf(kind) ==
    CASE kind \in {"idsFromPaths", "searchFiles", "pull"} -> "fetching"
      [] kind = "batchDelete" -> "deleting"
      [] kind \in {"createFolder", "uploadFile"} -> "creating"
      [] kind = "updateFile" -> "modifying"

Phases == {"fetching", "deleting", "creating", "modifying"}

\* the failure notices of push(), by the phase they name
PhaseNotices(phase) ==
    CASE phase = "fetching" -> {"An error occurred fetching Google Drive files."}
      [] phase = "deleting" -> {"An error occurred deleting Google Drive files."}
      [] phase = "creating" -> {"An error occurred creating Google Drive folders.",
                                "An error occurred creating Google Drive files.",
                                "An error occurred creating Google Drive config files."}
      [] phase = "modifying" -> {"An error occurred modifying Google Drive files."}

\* the <<id, path>> pairs of an index
Pairs(m) == {m[i] : i \in DOMAIN m}

\* the <<id, path>> pairs the create calls recorded in a history returned
AllCreated(cs) ==
    UNION { { <<cs[n][i].arg, cs[n][i].path>> :
                i \in {j \in DOMAIN cs[n] :
                         /\ cs[n][j].ev = "ok"
                         /\ cs[n][j].kind \in {"createFolder", "uploadFile"}} } :
            n \in DOMAIN cs }

-----------------------------------------------------------------------------
(* C11 *)

\* C11: a cycle whose grouped delete failed in transport has still issued a
\* create call for every logged create whose file or folder exists and an
\* update call for every logged modify whose file exists.
C11_DeleteFailureKeepsCycle ==
    \A p \in Invocations :
        (/\ inv[p].outcome = "aborted"
         /\ Events(p, LAMBDA e : e.ev = "fail" /\ e.kind = "batchDelete") # {}) =>
            \A k \in DOMAIN operations :
                LET path == operations[k][1]
                    op == operations[k][2]
                IN  /\ (op = "create" /\ GetAbstractFileByPath(path) # "null") =>
                          Events(p,
                                 LAMBDA e : e.ev = "call" /\ IsVaultCreate(e)
                                            /\ e.path = path) # {}
                    /\ (op = "modify" /\ IsFile(path)) =>
                          Events(p,
                                 LAMBDA e : e.ev = "call" /\ IsVaultUpdate(e)
                                            /\ e.path = path) # {}

-----------------------------------------------------------------------------
(* C12 *)

\* C12: in every cycle the failed remote calls of a phase and the notices
\* naming that phase are equally many, and a cycle that showed a "Sync
\* complete" notice has no failed remote call.
C12_OneNoticePerFailure ==
    \A n \in Invocations :
        /\ \A phase \in Phases :
              Cardinality(Events(n, LAMBDA e : e.ev = "fail" /\ PhaseOf(e.kind) = phase))
                = Cardinality({i \in DOMAIN notices[n] :
                                  notices[n][i] \in PhaseNotices(phase)})
        /\ (\E i \in DOMAIN notices[n] : notices[n][i] \in CompleteNotices) =>
              Events(n, LAMBDA e : e.ev = "fail") = {}

-----------------------------------------------------------------------------
(* C13 *)

\* C13: no pending folder is in two depth batches, a cycle issues at most
\* one folder create call per pending folder, and exactly one by the time
\* its phases are over.
C13_OneCreatePerFolder ==
    \A p \in Invocations :
        inv[p].pc # "idle" =>
            /\ \A i, j \in DOMAIN inv[p].batches :
                  i # j => Range(inv[p].batches[i]) \cap Range(inv[p].batches[j]) = {}
            /\ \A f \in Range(inv[p].creates) :
                  IsFolder(f) =>
                     LET issued == Cardinality(Events(p,
                                     LAMBDA e : e.ev = "call" /\ e.kind = "createFolder"
                                                /\ e.path = f))
                     IN  /\ issued <= 1
                         /\ inv[p].pc = "endSync" => issued = 1

-----------------------------------------------------------------------------
(* C14 *)

\* C14: when a note upload is issued, every pending folder of the cycle has
\* a settled create call, every folder create call issued so far has
\* settled, and no folder create call of the vault is issued after it.
C14_NotesAfterAllFolders ==
    /\ \A n \in Invocations :
          \A i \in DOMAIN calls[n] :
              LET e == calls[n][i]
                  folder(x) == x.kind = "createFolder" /\ ~IsConfigPath(x.path)
              IN  (e.ev = "call" /\ e.kind = "uploadFile" /\ ~IsConfigPath(e.path)) =>
                     /\ \A j \in DOMAIN calls[n] : folder(calls[n][j]) => j < i
                     /\ CountBefore(n, i, LAMBDA x : folder(x) /\ x.ev = "call")
                          = CountBefore(n, i, LAMBDA x : folder(x) /\ IsSettle(x))
    /\ \A p \in Invocations :
          (inv[p].pc # "idle" /\ inv[p].phase = "notes") =>
              \A f \in Range(inv[p].creates) :
                  IsFolder(f) =>
                     Events(p,
                            LAMBDA x : x.kind = "createFolder" /\ IsSettle(x)
                                       /\ x.path = f) # {}

C14_Witness ==
    \E n \in Invocations :
        /\ Events(n, LAMBDA e : e.ev = "call" /\ e.kind = "uploadFile"
                               /\ e.path = "a/n.md") # {}
        /\ Events(n, LAMBDA e : e.ev = "fail" /\ e.kind = "createFolder"
                               /\ e.path = "a") # {}

-----------------------------------------------------------------------------
(* C15 *)

\* C15: no remote mutation is issued while the pull of the cycle is
\* pending; every create call of the vault comes after the grouped delete
\* has settled; every update call of the vault comes after the grouped
\* delete and after every create call of the vault, all of them settled.
C15_PhasesInOrder ==
    /\ \A p \in Invocations :
          inv[p].pc \in {"modal", "pull"} => Events(p, IsMutation) = {}
    /\ \A n \in Invocations :
          \A i \in DOMAIN calls[n] :
              LET e == calls[n][i]
                  delete(x) == x.kind = "batchDelete"
                  settledBefore(P(_)) ==
                      CountBefore(n, i, LAMBDA x : P(x) /\ x.ev = "call")
                        = CountBefore(n, i, LAMBDA x : P(x) /\ IsSettle(x))
              IN  /\ IsMutation(e) =>
                        \E j \in DOMAIN calls[n] :
                            j < i /\ calls[n][j].kind = "pull" /\ calls[n][j].ev = "ok"
                  /\ (e.ev = "call" /\ (IsVaultCreate(e) \/ IsVaultUpdate(e))) =>
                        /\ \A j \in DOMAIN calls[n] : delete(calls[n][j]) => j < i
                        /\ settledBefore(delete)
                  /\ (e.ev = "call" /\ IsVaultUpdate(e)) =>
                        /\ \A j \in DOMAIN calls[n] : IsVaultCreate(calls[n][j]) => j < i
                        /\ settledBefore(IsVaultCreate)

C15_Witness ==
    \E n \in Invocations :
        /\ Events(n, LAMBDA e : e.ev = "ok" /\ e.kind = "batchDelete") # {}
        /\ Events(n, LAMBDA e : e.ev = "ok" /\ IsVaultCreate(e)) # {}
        /\ Events(n, LAMBDA e : e.ev = "ok" /\ IsVaultUpdate(e)) # {}

-----------------------------------------------------------------------------
(* C16 *)

\* C16: a step adds the pair <<id, path>> to driveIdToPath exactly when a
\* create call for path returns id in that step (so a failed create adds
\* nothing, and the pair is there before anything later is issued), and
\* every pair a create call returned is in the index.
C16_IndexRecordsCreates ==
    /\ [](AllCreated(calls) \subseteq Pairs(driveIdToPath))
    /\ [][Pairs(driveIdToPath') \ Pairs(driveIdToPath)
            = AllCreated(calls') \ AllCreated(calls)]_vars

C16_Witness ==
    \E n \in Invocations :
        /\ Events(n, LAMBDA e : e.ev = "ok" /\ e.kind = "createFolder"
                               /\ <<e.arg, e.path>> \in Pairs(driveIdToPath)) # {}
        /\ Events(n, LAMBDA e : e.ev = "fail" /\ e.kind \in {"createFolder", "uploadFile"}
                               /\ ~\E k \in DOMAIN driveIdToPath :
                                      driveIdToPath[k][2] = e.path) # {}

-----------------------------------------------------------------------------
(* C17 *)

\* C17: at the end of a cycle in which the update call of a pending modify
\* failed, exactly one update call has been issued for every pending modify
\* whose file exists.
C17_SiblingModifiesIssued ==
    \A p \in Invocations :
        (/\ inv[p].pc = "endSync"
         /\ Events(p, LAMBDA e : e.ev = "fail" /\ e.kind = "updateFile"
                                           /\ e.path \in Range(inv[p].modifies)) # {}) =>
            \A f \in Range(inv[p].modifies) :
                IsFile(f) =>
                   Cardinality(Events(p,
                       LAMBDA e : e.ev = "call" /\ e.kind = "updateFile" /\ e.path = f)) = 1

C17_Witness ==
    \E p \in Invocations :
        /\ inv[p].pc = "endSync"
        /\ Len(inv[p].modifies) = 2
        /\ Events(p, LAMBDA e : e.ev = "fail" /\ e.kind = "updateFile"
                                          /\ e.path \in Range(inv[p].modifies)) # {}
        /\ Events(p, LAMBDA e : e.ev = "ok" /\ e.kind = "updateFile"
                                          /\ e.path \in Range(inv[p].modifies)) # {}

-----------------------------------------------------------------------------
(* C18 *)

\* C18: no update call for a path of the vault is issued with an absent id.
C18_NoUpdateWithoutId ==
    \A n \in Invocations :
        \A i \in DOMAIN calls[n] :
            (calls[n][i].ev = "call" /\ IsVaultUpdate(calls[n][i]))
                => calls[n][i].arg # Undefined

-----------------------------------------------------------------------------
(* C19 *)

\* C19: a cycle whose pull reported pulled files and that ran to its end
\* shows the reload notice, not the plain "Sync complete!".
C19_PulledMeansReloadNotice ==
    \A n \in Invocations :
        Events(n, LAMBDA e : e.ev = "ok" /\ e.kind = "pull" /\ e.arg = "pulled") # {} =>
            \A i \in DOMAIN notices[n] :
                notices[n][i] \in CompleteNotices => notices[n][i] = ReloadNotice

-----------------------------------------------------------------------------
(* C20 *)

\* C20: a search of which a page request failed, the first or a later one,
\* returns the absent result and no list.
C20_FailedPageGivesNoList ==
    (search.pc = "done" /\ search.pageFailed) =>
        (search.failed /\ search.result = <<>>)

C20_Witness ==
    /\ search.pc = "done"
    /\ search.pageFailed
    /\ search.requests >= 2
    /\ search.files # <<>>
    /\ search.failed

-----------------------------------------------------------------------------
(* C21 *)

\* where a call of push() is suspended during its delete phase: on the id
\* lookup (push.ts 21, part_001 272) or on the grouped delete
DeletePhase == {"ids", "config", "delete"}

\* the step is one of invocation p, taken from its delete phase, that keeps
\* it there or aborts the cycle
StaysOrAborts(p) ==
    /\ inv[p].pc \in DeletePhase
    /\ inv'[p] # inv[p]
    /\ \/ inv'[p].pc \in DeletePhase
       \/ inv'[p].pc = "idle" /\ inv'[p].outcome = "aborted"

\* C21: no step a cycle takes in its delete phase, up to and including the
\* one that aborts it (failed id lookup or failed grouped delete), changes
\* the log or the index; and when the aborted cycle is the only one that
\* ran, the index is the one push() was called with.
C21_AbortLeavesLogAndIndex ==
    /\ [][\A p \in Invocations :
             StaysOrAborts(p) => UNCHANGED <<operations, driveIdToPath>>]_vars
    /\ [](\A p \in Invocations :
             (inv[p].outcome = "aborted" /\ pushCount = 1) =>
                 driveIdToPath = inv[p].startIdx)

C21_Witness ==
    \E p \in Invocations :
        /\ inv[p].pc = "idle"
        /\ inv[p].outcome = "aborted"
        /\ \E i \in DOMAIN calls[p] :
              /\ calls[p][i].ev = "call"
              /\ calls[p][i].kind = "batchDelete"
              /\ calls[p][i].list # <<>>
              /\ Range(calls[p][i].list) \subseteq Keys(driveIdToPath)
        /\ Events(p, LAMBDA e : e.ev = "fail" /\ e.kind = "batchDelete") # {}
        /\ \E k \in DOMAIN operations : operations[k][2] = "delete"

-----------------------------------------------------------------------------
(* C22 *)

\* C22: no two ids of driveIdToPath map to the same path (every Init has an
\* index with distinct paths), so inverting it loses no entry.
C22_IndexInjective ==
    /\ \A i, j \in DOMAIN driveIdToPath :
          i # j => driveIdToPath[i][2] # driveIdToPath[j][2]
    /\ Len(PathsToIdsOf(driveIdToPath)) = Len(driveIdToPath)

-----------------------------------------------------------------------------
(* C23: push() with the local-change watcher running *)

\* what the watcher may record: a note of the vault was edited
WatchedEntries == { <<"m1.md", "modify">> }

\* the watcher records an operation: a later entry for a path overwrites the
\* earlier one
Watch(path, op) ==
    /\ operations' = Put(operations, path, op)
    /\ UNCHANGED <<impl, driveIdToPath, syncing, remote, nextId, inv, calls,
                   notices, pushCount, failures, search>>

WatchNext ==
    \/ Next
    \/ \E e \in WatchedEntries : Watch(e[1], e[2])

WatchSpec == Init /\ [][WatchNext]_vars

\* where a call of push() is suspended once it has partitioned the log
Partitioned == {"ids", "config", "delete", "batch", "getConfig", "settings"}

\* the operations of a kind that invocation p took from the log
Taken(p, op) ==
    CASE op = "delete" -> Range(inv[p].deletes)
      [] op = "create" -> Range(inv[p].creates)
      [] op = "modify" -> Range(inv[p].modifies)

\* the remote calls that carry out an operation
KindsOf(op) ==
    CASE op = "delete" -> {"batchDelete"}
      [] op = "create" -> {"createFolder", "uploadFile"}
      [] op = "modify" -> {"updateFile"}

\* C23: when a cycle reaches its end, every log entry that was recorded
\* after the cycle partitioned the log (it is in the log and is not one the
\* cycle took) is still in the log, or a remote call of the cycle carried
\* it out.
C23_WatchedEntryNotLost ==
    [][\A p \in Invocations :
          (inv[p].pc \in Partitioned /\ inv'[p].pc = "endSync") =>
              \A k \in DOMAIN operations :
                  LET path == operations[k][1]
                      op == operations[k][2]
                  IN  path \notin Taken(p, op) =>
                         \/ Get(operations', path) = op
                         \/ \E i \in DOMAIN calls'[p] :
                               /\ calls'[p][i].ev = "ok"
                               /\ calls'[p][i].kind \in KindsOf(op)
                               /\ calls'[p][i].path = path]_vars

-----------------------------------------------------------------------------
(* C24 *)

\* C24: no create call for a path of two or more segments is issued without
\* the id of its parent folder, so none is sent with the sync root as the
\* parent.
C24_NoCreateUnderRoot ==
    \A n \in Invocations :
        \A i \in DOMAIN calls[n] :
            LET e == calls[n][i]
            IN  (/\ e.ev = "call"
                 /\ e.kind \in {"createFolder", "uploadFile"}
                 /\ Depth(e.path) >= 2) =>
                    (~Falsy(e.arg) /\ e.parent # RootId)

-----------------------------------------------------------------------------
(* searchFiles() alone, push() not running *)

SearchInit ==
    /\ impl = "helpers"
    /\ operations = <<>>
    /\ driveIdToPath = <<>>
    /\ remote = <<>>
    /\ syncing = FALSE
    /\ nextId = 0
    /\ inv = [p \in Invocations |-> IdleLocals]
    /\ calls = [p \in Invocations |-> <<>>]
    /\ notices = [p \in Invocations |-> <<>>]
    /\ pushCount = 0
    /\ failures = 0
    /\ search = SearchIdle

SearchSpec == SearchInit /\ [][SearchNext]_vars

====
